---- MODULE Spec2Model ----
(***************************************************************************)
(* iprint-rs: indentation inferred from the machine stack pointer.         *)
(*                                                                         *)
(* The model has, per thread, the real call stack (frames, each with the   *)
(* stack-pointer value that stack_ptr! reads inside it) and the            *)
(* thread-local STACK of recorded stack-pointer values (src/src/lib.rs).   *)
(* Texts are sequences of one-character strings.                           *)
(***************************************************************************)
EXTENDS Integers, Sequences, FiniteSets, TLC

\* ---------------------------------------------------------------- bounds
\* Stack-pointer values are 1..MaxAddr (larger = shallower frame).
MaxAddr == 5
\* Active frames of the main thread, its entry function included.
MaxDepth == 3
\* The same two bounds where the state has a second dimension (two concurrent
\* threads, the sinks).
MaxAddrSmall == 3
MaxDepthSmall == 2
\* Longest arbitrary prior contents of a depth stack.
MaxStack == 3
\* Longest text handed to iformat!.
MaxLen == 3
\* Messages the sinks hold before the emission wrappers stop being called.
MaxOut == 2

\* ------------------------------------------------------- program constants
\* `let indent = 4 * call_depth;`
IndentWidth == 4

Threads == {1, 2}
Addr == 1..MaxAddr
\* An integer no probe returns.
NoDepth == 0 - 1
LF == "\n"
CR == "\r"
SP == " "

VARIABLES
    STACK,    \* STACK[slot]: the thread-local Vec<usize> of recorded pointers
    frames,   \* frames[t]: the active call frames of thread t, outermost first
    solo,     \* solo[t]: the depth stack thread t would have if it ran alone
    chain,    \* chain[t]: 0 while t has only called deeper, 1 once a call has
              \* returned, 2 once a frame has made a second call
    sink,     \* the messages forwarded to stdout and to the log facade, in order
    last,     \* the operation that completed last, with what it returned
    run       \* where the test of tests.rs is, and the strings it has built

vars == <<STACK, frames, solo, chain, sink, last, run>>

\* The sequences of up to n elements of S.
RECURSIVE SeqsUpTo(_, _)
SeqsUpTo(S, n) ==
    IF n = 0 THEN {<<>>}
    ELSE LET shorter == SeqsUpTo(S, n - 1)
         IN shorter \cup {Append(q, x) : q \in shorter, x \in S}

\* ------------------------------------------------------------ call_depth!

Top(s) == s[Len(s)]
Front(s) == SubSeq(s, 1, Len(s) - 1)

\* `thread_local!(static STACK ...)` / `STACK.with(|c| ...)`: the slot a thread
\* reaches is its own.
SlotShared(t) == 1
Slot(t) == t

\* A pruning loop that never pops (stale entries are kept).
PruneNever(stack, sp) == stack
\* A pruning `if` in place of the loop: at most one entry is popped.
PruneOnce(stack, sp) ==
    IF stack # <<>> /\ Top(stack) < sp THEN Front(stack) ELSE stack
\* `while let Some(&last) = stack.last() { if last < sp { pop } else { break } }`
RECURSIVE Prune(_, _)
Prune(stack, sp) ==
    IF stack # <<>> /\ Top(stack) < sp
    THEN Prune(Front(stack), sp)
    ELSE stack

\* A push that is skipped on an empty stack.
NeedsPushNonEmpty(stack, sp) == stack # <<>> /\ Top(stack) # sp
\* A push on every probe.
NeedsPushAlways(stack, sp) == TRUE
\* `if stack.last() != Some(&stack_pointer)`
NeedsPush(stack, sp) == stack = <<>> \/ Top(stack) # sp

\* `stack.push(stack_pointer)` under the condition above.
Record(stack, sp) == IF NeedsPush(stack, sp) THEN Append(stack, sp) ELSE stack

\* A depth that counts the entries (base 1).
DepthOfLen(stack) == Len(stack)
\* `stack.len() - 1` on usize: with an empty stack the subtraction underflows
\* (a panic in a debug build, usize::MAX in a release build); NoDepth stands
\* for either, and `underflow` in CallDepth says it happened.
DepthOf(stack) == IF Len(stack) = 0 THEN NoDepth ELSE Len(stack) - 1

\* The body of call_depth! on the thread's stack with stack pointer sp.
CallDepth(stack, sp) ==
    LET s == Record(Prune(stack, sp), sp)
    IN  [stack |-> s, depth |-> DepthOf(s), underflow |-> Len(s) = 0]

\* ------------------------------------------------------------- call frames
\* A frame: its stack pointer; cur, the depth its latest probe returned
\* (NoDepth before its first probe); nest, whether a nested call that probed
\* has returned since its latest probe; fmt, the `call_depth` binding of an
\* iformat! whose arguments are being evaluated (NoDepth when there is none).
Frame(sp) == [sp |-> sp, cur |-> NoDepth, nest |-> FALSE, fmt |-> NoDepth]

\* `stack_ptr!()`: rsp as read in the frame that is executing.
stack_ptr(t) == Top(frames[t]).sp

\* `last` when no operation has completed. Of a probe it holds: the thread t,
\* the pointer sp, the depth returned, whether `stack.len() - 1` underflowed,
\* how many entries the loop popped and whether sp was pushed; prev, the depth
\* the same frame's previous probe returned, and again, whether a nested
\* traced call returned in between. Of iformat! and the wrappers also the
\* text formatted and the string produced.
Idle == [t |-> 0, kind |-> "none", sp |-> 0, depth |-> NoDepth,
         underflow |-> FALSE, popped |-> 0, pushed |-> FALSE,
         prev |-> NoDepth, again |-> FALSE, probes |-> 0,
         text |-> <<>>, out |-> <<>>]

\* The test has not started: no string built yet.
NotRun == [pc |-> "idle", fresh |-> FALSE, first |-> <<>>, nested |-> <<>>,
           second |-> <<>>, acc |-> <<>>]

\* Before the first probe: `RefCell::new(vec![])` in every thread, and each
\* thread in its entry function, whose frame is at address top.
Start(top) ==
    /\ STACK = [t \in Threads |-> <<>>]
    /\ solo = [t \in Threads |-> <<>>]
    /\ frames = [t \in Threads |-> <<Frame(top)>>]
    /\ chain = [t \in Threads |-> 0]
    /\ sink = <<>>
    /\ last = Idle
    /\ run = NotRun

Init == Start(MaxAddr)

\* The executing function of thread t calls a function whose frame has
\* stack pointer sp, below its own; d bounds the nesting.
Call(t, sp, d) ==
    /\ Len(frames[t]) < d
    /\ sp < stack_ptr(t)
    /\ frames' = [frames EXCEPT ![t] = Append(@, Frame(sp))]
    /\ chain' = [chain EXCEPT ![t] = IF @ = 0 THEN 0 ELSE 2]
    /\ last' = [Idle EXCEPT !.t = t, !.kind = "call"]
    /\ UNCHANGED <<STACK, solo, sink, run>>

\* The executing function of thread t returns to its caller.
Return(t) ==
    /\ Len(frames[t]) > 1
    /\ LET n == Len(frames[t])
           f == frames[t][n]
       IN frames' = [frames EXCEPT
              ![t] = [Front(@) EXCEPT
                         ![n - 1].nest = @ \/ f.cur # NoDepth \/ f.nest]]
    /\ chain' = [chain EXCEPT ![t] = IF @ = 0 THEN 1 ELSE @]
    /\ last' = [Idle EXCEPT !.t = t, !.kind = "return"]
    /\ UNCHANGED <<STACK, solo, sink, run>>

\* What one expansion of call_depth! by thread t, reading stack pointer sp,
\* returns and does to the thread-local stack.
ProbedAt(t, sp) == CallDepth(STACK[Slot(t)], sp)

Probed(t) == ProbedAt(t, stack_ptr(t))

ProbeEffect(t) ==
    LET n == Len(frames[t])
    IN /\ STACK' = [STACK EXCEPT ![Slot(t)] = Probed(t).stack]
       /\ solo' = [solo EXCEPT ![t] = CallDepth(@, stack_ptr(t)).stack]
       /\ frames' = [frames EXCEPT ![t][n].cur = Probed(t).depth,
                                   ![t][n].nest = FALSE]

ProbeRecordAt(t, sp, kind) ==
    LET old == STACK[Slot(t)]
        kept == Prune(old, sp)
    IN [Idle EXCEPT !.t = t, !.kind = kind, !.sp = sp,
                    !.depth = ProbedAt(t, sp).depth,
                    !.underflow = ProbedAt(t, sp).underflow,
                    !.popped = Len(old) - Len(kept),
                    !.pushed = Len(ProbedAt(t, sp).stack) > Len(kept),
                    !.probes = 1]

ProbeRecord(t, kind) ==
    LET f == Top(frames[t])
    IN [ProbeRecordAt(t, f.sp, kind) EXCEPT
            !.prev = f.cur,
            !.again = f.cur # NoDepth /\ f.nest]

\* `call_depth!()` in the executing function of thread t.
Probe(t) ==
    /\ ProbeEffect(t)
    /\ last' = ProbeRecord(t, "call_depth")
    /\ UNCHANGED <<chain, sink, run>>

\* The main thread alone.
Main == CHOOSE t \in Threads : \A u \in Threads : t <= u

Next ==
    \/ \E sp \in Addr : Call(Main, sp, MaxDepth)
    \/ Return(Main)
    \/ Probe(Main)

Spec == Init /\ [][Next]_vars

\* Two threads running concurrently, their steps interleaved in any order.
NextThreads ==
    \E t \in Threads :
        \/ \E sp \in 1..MaxAddrSmall : Call(t, sp, MaxDepthSmall)
        \/ Return(t)
        \/ Probe(t)

InitSmall == Start(MaxAddrSmall)

SpecThreads == InitSmall /\ [][NextThreads]_vars

\* A probe with an arbitrary pointer value p: thread t is executing in some
\* frame at address p (nothing is assumed of how it got there).
ProbeAt(t, p) ==
    /\ STACK' = [STACK EXCEPT ![Slot(t)] = ProbedAt(t, p).stack]
    /\ solo' = [solo EXCEPT ![t] = CallDepth(@, p).stack]
    /\ frames' = [frames EXCEPT
                      ![t] = <<[Frame(p) EXCEPT !.cur = ProbedAt(t, p).depth]>>]
    /\ last' = ProbeRecordAt(t, p, "call_depth")
    /\ UNCHANGED <<chain, sink, run>>

NextAny == \E t \in Threads : \E p \in Addr : ProbeAt(t, p)

\* Probes with arbitrary pointer values, from empty stacks.
SpecAny == Init /\ [][NextAny]_vars

\* STACK is a `pub static`: any Vec<usize> can be its contents when a probe
\* starts. The main thread's stack starts as any sequence of up to MaxStack
\* addresses.
InitRaw ==
    /\ \E q \in SeqsUpTo(Addr, MaxStack) :
          /\ STACK = [t \in Threads |-> IF t = Main THEN q ELSE <<>>]
          /\ solo = STACK
    /\ frames = [t \in Threads |-> <<Frame(MaxAddr)>>]
    /\ chain = [t \in Threads |-> 0]
    /\ sink = <<>>
    /\ last = Idle
    /\ run = NotRun

NextRaw == \E p \in Addr : ProbeAt(Main, p)

SpecRaw == InitRaw /\ [][NextRaw]_vars

\* ---------------------------------------------------------------- iformat!
\* Texts are sequences of characters; the characters that matter to lines()
\* are the line feed and the carriage return.
Chars == {"a", LF, CR}
Texts == SeqsUpTo(Chars, MaxLen)

\* The index of the first line feed of text, 0 when it has none.
FirstLF(text) ==
    IF \E i \in 1..Len(text) : text[i] = LF
    THEN CHOOSE i \in 1..Len(text) :
             text[i] = LF /\ \A j \in 1..(i - 1) : text[j] # LF
    ELSE 0

\* str::split_inclusive('\n'): the pieces of text, each up to and including
\* its line feed; a text that ends with a line feed has no empty last piece.
RECURSIVE SplitInclusive(_)
SplitInclusive(text) ==
    IF text = <<>> THEN <<>>
    ELSE LET k == FirstLF(text)
         IN IF k = 0 THEN <<text>>
            ELSE <<SubSeq(text, 1, k)>>
                     \o SplitInclusive(SubSeq(text, k + 1, Len(text)))

\* What str::lines() yields of one piece: a final "\n" is stripped, and then a
\* final "\r" before it.
StripLineEnd(piece) ==
    IF piece # <<>> /\ Top(piece) = LF
    THEN LET l == Front(piece)
         IN IF l # <<>> /\ Top(l) = CR THEN Front(l) ELSE l
    ELSE piece

\* lines() that yields the pieces with their line endings.
LinesKeepEnds(text) == SplitInclusive(text)
\* `text.lines()`
Lines(text) ==
    LET pieces == SplitInclusive(text)
    IN [i \in 1..Len(pieces) |-> StripLineEnd(pieces[i])]

\* `format!("{:indent$}{}", "", line, indent=indent)`: the empty string padded
\* with spaces to width indent, then the line.
Pad(n) == [i \in 1..n |-> SP]
\* A line left without its indentation.
IndentLineNone(line, indent) == line
IndentLine(line, indent) == Pad(indent) \o line

\* `.collect::<Vec<_>>().join("\n")`
RECURSIVE Join(_)
Join(ls) ==
    IF ls = <<>> THEN <<>>
    ELSE IF Len(ls) = 1 THEN ls[1]
    ELSE ls[1] \o <<LF>> \o Join(Tail(ls))

\* The string iformat! yields of text at the depth its probe returned.
IndentedText(text, depth) ==
    LET indent == IndentWidth * depth
        ls == Lines(text)
    IN Join([i \in 1..Len(ls) |-> IndentLine(ls[i], indent)])

\* What iformat! leaves in `last`: the probe's record, the text and the string.
FormatRecord(t, kind, text) ==
    [ProbeRecord(t, kind) EXCEPT
        !.text = text,
        !.out = IndentedText(text, Probed(t).depth)]

\* `iformat!(...)` in the executing function of thread t, the format string
\* and arguments giving text.
Iformat(t, text) ==
    /\ ProbeEffect(t)
    /\ last' = FormatRecord(t, "iformat", text)
    /\ UNCHANGED <<chain, sink, run>>

NextFmt ==
    \/ \E sp \in Addr : Call(Main, sp, MaxDepth)
    \/ Return(Main)
    \/ \E text \in Texts : Iformat(Main, text)

\* One thread formatting texts at every nesting.
SpecFmt == Init /\ [][NextFmt]_vars

\* iformat! whose format arguments call traced functions, in its steps.
\* `let call_depth = $crate::call_depth!(); let indent = 4 * call_depth;`
IformatBegin(t) ==
    LET n == Len(frames[t])
    IN /\ frames[t][n].fmt = NoDepth
       /\ STACK' = [STACK EXCEPT ![Slot(t)] = Probed(t).stack]
       /\ solo' = [solo EXCEPT ![t] = CallDepth(@, stack_ptr(t)).stack]
       /\ frames' = [frames EXCEPT ![t][n].cur = Probed(t).depth,
                                   ![t][n].nest = FALSE,
                                   ![t][n].fmt = Probed(t).depth]
       /\ last' = ProbeRecord(t, "call_depth")
       /\ UNCHANGED <<chain, sink, run>>

\* An indentation taken from the length of the stack when the text is
\* formatted, after the arguments have run.
DepthUsedLate(t) == Len(STACK[Slot(t)]) - 1
\* The depth the indentation is computed from: the binding made before
\* `format!($($t)*)` evaluates the arguments.
DepthUsed(t) == Top(frames[t]).fmt

\* `let text = format!($($t)*);` has evaluated the arguments, giving text; the
\* lines are indented and joined. prev is the depth bound at the start, again
\* whether a traced call ran and returned during the arguments.
IformatEnd(t, text) ==
    LET n == Len(frames[t])
        f == frames[t][n]
    IN /\ f.fmt # NoDepth
       /\ frames' = [frames EXCEPT ![t][n].fmt = NoDepth]
       /\ last' = [Idle EXCEPT !.t = t, !.kind = "iformat", !.sp = f.sp,
                               !.depth = DepthUsed(t),
                               !.prev = f.fmt,
                               !.again = f.nest,
                               !.probes = 1,
                               !.text = text,
                               !.out = IndentedText(text, DepthUsed(t))]
       /\ UNCHANGED <<STACK, solo, chain, sink, run>>

\* Between the two, the arguments run: calls, probes, and returns of the
\* frames called (a frame in the middle of iformat! does not return).
NextArgs ==
    \/ \E sp \in Addr : Call(Main, sp, MaxDepth)
    \/ Top(frames[Main]).fmt = NoDepth /\ Return(Main)
    \/ Probe(Main)
    \/ IformatBegin(Main)
    \/ \E text \in {<<"a">>, <<"a", LF, "a">>} : IformatEnd(Main, text)

SpecArgs == Init /\ [][NextArgs]_vars

\* ------------------------------------------------------ emission wrappers
\* The texts the wrappers are called with: one line, and two lines.
EmitTexts == {<<"a">>, <<"a", LF, "a">>}
Levels == {"trace", "debug", "info", "warn", "error"}

\* `println!("{}", msg)`: msg and a line feed, written to standard output.
Println(msg) == [to |-> "stdout", msg |-> msg \o <<LF>>]
\* `trace!("{}", msg)` ... `error!("{}", msg)`: msg handed to the log facade at
\* the macro's level.
Log(level, msg) == [to |-> level, msg |-> msg]

\* A wrapper that forwards every line of the message on its own.
ForwardPerLine(q, m) ==
    LET ls == Lines(m.msg)
        RECURSIVE Each(_)
        Each(k) == IF k = 0 THEN q
                   ELSE Append(Each(k - 1), [to |-> m.to, msg |-> ls[k]])
    IN Each(Len(ls))
\* One synchronous forward: the sink has the message when the macro returns.
Forward(q, m) == Append(q, m)

\* `iprintln!(...)` in the executing function of thread t.
Iprintln(t, text) ==
    /\ Len(sink) < MaxOut
    /\ ProbeEffect(t)
    /\ last' = FormatRecord(t, "iprintln", text)
    /\ sink' = Forward(sink, Println(IndentedText(text, Probed(t).depth)))
    /\ UNCHANGED <<chain, run>>

\* `itrace!`, `idebug!`, `iinfo!`, `iwarn!`, `ierror!` (feature "log") in the
\* executing function of thread t.
Ilog(t, level, text) ==
    /\ Len(sink) < MaxOut
    /\ ProbeEffect(t)
    /\ last' = FormatRecord(t, level, text)
    /\ sink' = Forward(sink, Log(level, IndentedText(text, Probed(t).depth)))
    /\ UNCHANGED <<chain, run>>

Itrace(t, text) == Ilog(t, "trace", text)
Idebug(t, text) == Ilog(t, "debug", text)
Iinfo(t, text) == Ilog(t, "info", text)
Iwarn(t, text) == Ilog(t, "warn", text)
Ierror(t, text) == Ilog(t, "error", text)

NextEmit ==
    \/ \E sp \in 1..MaxAddrSmall : Call(Main, sp, MaxDepthSmall)
    \/ Return(Main)
    \/ \E text \in EmitTexts :
          \/ Iprintln(Main, text)
          \/ Itrace(Main, text)
          \/ Idebug(Main, text)
          \/ Iinfo(Main, text)
          \/ Iwarn(Main, text)
          \/ Ierror(Main, text)

\* One thread printing and logging at every nesting.
SpecEmit == InitSmall /\ [][NextEmit]_vars

\* ---------------------------------------------------------------- tests.rs
Level1Text == <<"l", "e", "v", "e", "l", "1">>
Level2Text == <<"l", "e", "v", "e", "l", "2">>
\* `"level1\n    level2\nlevel1"`
Expected ==
    Level1Text \o <<LF, SP, SP, SP, SP>> \o Level2Text \o <<LF>> \o Level1Text

\* The caller (iformat_test, or any function) calls level1(); fresh records
\* whether the thread has probed before.
CallLevel1(t, sp) ==
    /\ run.pc = "idle"
    /\ Len(frames[t]) + 2 <= MaxDepth
    /\ sp < stack_ptr(t)
    /\ frames' = [frames EXCEPT ![t] = Append(@, Frame(sp))]
    /\ chain' = [chain EXCEPT ![t] = IF @ = 0 THEN 0 ELSE 2]
    /\ last' = [Idle EXCEPT !.t = t, !.kind = "call"]
    /\ run' = [NotRun EXCEPT !.pc = "level1", !.fresh = (STACK[Slot(t)] = <<>>)]
    /\ UNCHANGED <<STACK, solo, sink>>

\* level1: `iformat!("level1") + "\n"`
Level1First(t) ==
    /\ run.pc = "level1"
    /\ ProbeEffect(t)
    /\ last' = FormatRecord(t, "iformat", Level1Text)
    /\ run' = [run EXCEPT !.pc = "call2",
                          !.first = last'.out,
                          !.acc = last'.out \o <<LF>>]
    /\ UNCHANGED <<chain, sink>>

\* level1: the call `level2()`
CallLevel2(t, sp) ==
    /\ run.pc = "call2"
    /\ sp < stack_ptr(t)
    /\ frames' = [frames EXCEPT ![t] = Append(@, Frame(sp))]
    /\ chain' = [chain EXCEPT ![t] = IF @ = 0 THEN 0 ELSE 2]
    /\ last' = [Idle EXCEPT !.t = t, !.kind = "call"]
    /\ run' = [run EXCEPT !.pc = "level2"]
    /\ UNCHANGED <<STACK, solo, sink>>

\* level2: `iformat!("level2")`
Level2Format(t) ==
    /\ run.pc = "level2"
    /\ ProbeEffect(t)
    /\ last' = FormatRecord(t, "iformat", Level2Text)
    /\ run' = [run EXCEPT !.pc = "return2", !.nested = last'.out]
    /\ UNCHANGED <<chain, sink>>

\* level2 returns its string; level1: `+ &level2() + "\n"`
ReturnLevel2(t) ==
    /\ run.pc = "return2"
    /\ LET n == Len(frames[t])
           f == frames[t][n]
       IN frames' = [frames EXCEPT
              ![t] = [Front(@) EXCEPT
                         ![n - 1].nest = @ \/ f.cur # NoDepth \/ f.nest]]
    /\ chain' = [chain EXCEPT ![t] = IF @ = 0 THEN 1 ELSE @]
    /\ last' = [Idle EXCEPT !.t = t, !.kind = "return"]
    /\ run' = [run EXCEPT !.pc = "again", !.acc = @ \o run.nested \o <<LF>>]
    /\ UNCHANGED <<STACK, solo, sink>>

\* level1: `+ &iformat!("level1")`
Level1Second(t) ==
    /\ run.pc = "again"
    /\ ProbeEffect(t)
    /\ last' = FormatRecord(t, "iformat", Level1Text)
    /\ run' = [run EXCEPT !.pc = "return1",
                          !.second = last'.out,
                          !.acc = @ \o last'.out]
    /\ UNCHANGED <<chain, sink>>

\* level1 returns the string built; the caller has it (and asserts on it).
ReturnLevel1(t) ==
    /\ run.pc = "return1"
    /\ LET n == Len(frames[t])
           f == frames[t][n]
       IN frames' = [frames EXCEPT
              ![t] = [Front(@) EXCEPT
                         ![n - 1].nest = @ \/ f.cur # NoDepth \/ f.nest]]
    /\ chain' = [chain EXCEPT ![t] = IF @ = 0 THEN 1 ELSE @]
    /\ last' = [Idle EXCEPT !.t = t, !.kind = "return"]
    /\ run' = [run EXCEPT !.pc = "done"]
    /\ UNCHANGED <<STACK, solo, sink>>

\* The thread does anything (calls, returns, probes) and then, from any frame,
\* runs level1() as tests.rs does.
NextTest ==
    \/ run.pc = "idle" /\ \E sp \in Addr : Call(Main, sp, MaxDepth)
    \/ run.pc = "idle" /\ Return(Main)
    \/ run.pc = "idle" /\ Probe(Main)
    \/ \E sp \in Addr : CallLevel1(Main, sp)
    \/ Level1First(Main)
    \/ \E sp \in Addr : CallLevel2(Main, sp)
    \/ Level2Format(Main)
    \/ ReturnLevel2(Main)
    \/ Level1Second(Main)
    \/ ReturnLevel1(Main)

SpecTest == Init /\ [][NextTest]_vars

\* ------------------------------------------------------- depth properties

\* The frame i of thread t has probed: it is a traced call.
Traced(t, i) == frames[t][i].cur # NoDepth

\* The traced calls that are active and enclose frame j of thread t.
Enclosing(t, j) == Cardinality({i \in 1..(j - 1) : Traced(t, i)})

\* The stack pointers of the active traced calls, outermost first.
RECURSIVE TracedSps(_)
TracedSps(fs) ==
    IF fs = <<>> THEN <<>>
    ELSE LET rest == TracedSps(Front(fs))
         IN IF Top(fs).cur # NoDepth THEN Append(rest, Top(fs).sp) ELSE rest

\* The operation that completed last probed the depth.
Probing == last.probes > 0

\* C1 (depth restoration): a probe made by a call that has probed before, after
\* a nested traced call has returned, returns the depth that call's previous
\* probe returned.
C1_DepthRestored ==
    (Probing /\ last.again) => last.depth = last.prev

\* A nested call has re-probed after its own nested traced call returned.
C1_Witness ==
    /\ Probing /\ last.again
    /\ Len(frames[last.t]) = 2
    /\ last.depth = 1

C3_MonotonicNesting ==
    \A t \in Threads :
        chain[t] < 2 =>
            \A j \in 1..Len(frames[t]) :
                Traced(t, j) => frames[t][j].cur = Enclosing(t, j)

\* A chain of three traced calls, the third just having observed depth 2.
C3_Witness ==
    /\ Probing /\ chain[last.t] = 0
    /\ Len(frames[last.t]) = 3
    /\ \A j \in 1..3 : Traced(last.t, j)
    /\ last.depth = 2

\* C4 (depth equals the count of enclosing traced calls), as claimed: every
\* probe returns the number of active traced calls that enclose the probing
\* call, and afterwards the depth stack holds exactly the stack pointers of
\* the active traced calls.
C4_DepthCountsEnclosing ==
    Probing =>
        /\ last.depth = Enclosing(last.t, Len(frames[last.t]))
        /\ STACK[last.t] = TracedSps(frames[last.t])

\* C6 (thread isolation): under every interleaving each thread's depth stack
\* is the one it would have running alone, and so is each depth returned.
C6_ThreadIsolation ==
    /\ \A t \in Threads : STACK[t] = solo[t]
    /\ Probing => last.depth = Len(solo[last.t]) - 1

\* Both threads are inside nested traced calls, at different depths of
\* recorded history, and one of them has just probed.
C6_Witness ==
    /\ Probing
    /\ \A t \in Threads : Len(frames[t]) = 2 /\ Traced(t, 2)
    /\ Len(STACK[1]) # Len(STACK[2])

\* C8 (infallibility): whatever the pointer and the prior contents of the
\* stack, the stack is non-empty when `stack.len() - 1` is evaluated: no probe
\* underflows, and the depth returned is a non-negative integer.
C8_Infallible ==
    /\ ~last.underflow
    /\ Probing => (last.depth >= 0 /\ STACK[last.t] # <<>>)

\* A probe whose pointer is above every prior entry: the loop emptied a stack
\* of MaxStack prior entries and the pointer was pushed onto the empty stack.
C8_Witness ==
    /\ Probing
    /\ last.popped = MaxStack
    /\ last.pushed
    /\ last.depth = 0

\* C10 (ordering invariant): after any sequence of probes each thread's depth
\* stack is strictly decreasing from index 0 to the last index.
C10_StrictlyDecreasing ==
    \A t \in Threads :
        \A i, j \in 1..Len(STACK[t]) : i < j => STACK[t][i] > STACK[t][j]

\* A probe popped entries and pushed its pointer below two that stayed.
C10_Witness ==
    /\ Probing
    /\ last.popped > 0
    /\ last.pushed
    /\ Len(STACK[last.t]) = 3

\* The string with the first n characters of each of its lines removed, line
\* endings kept.
Unindent(str, n) ==
    LET pieces == SplitInclusive(str)
        RECURSIVE Cat(_)
        Cat(k) == IF k > Len(pieces) THEN <<>>
                  ELSE SubSeq(pieces[k], n + 1, Len(pieces[k])) \o Cat(k + 1)
    IN Cat(1)

\* C5 (formatter line preservation), as claimed: iformat! of a text with L
\* lines yields L lines, each the text's line behind 4 * D spaces, and with
\* the indentation taken away the result is the text, character for character.
C5_LinesPreserved ==
    last.kind = "iformat" =>
        LET indent == IndentWidth * last.depth
            inl == Lines(last.text)
            outl == Lines(last.out)
        IN /\ Len(outl) = Len(inl)
           /\ \A i \in 1..Len(outl) : outl[i] = Pad(indent) \o inl[i]
           /\ Unindent(last.out, indent) = last.text

\* The number of spaces a string starts with.
RECURSIVE LeadingSpaces(_)
LeadingSpaces(str) ==
    IF str # <<>> /\ Head(str) = SP THEN 1 + LeadingSpaces(Tail(str)) ELSE 0

\* C7 (nested formatting scenario): when level1() has returned, its two own
\* messages carry the same indentation, the message of level2 carries exactly
\* one indent unit more, and on a thread that had not probed before the string
\* returned is exactly "level1\n    level2\nlevel1".
C7_NestedScenario ==
    run.pc = "done" =>
        /\ LeadingSpaces(run.first) = LeadingSpaces(run.second)
        /\ LeadingSpaces(run.nested) = LeadingSpaces(run.first) + IndentWidth
        /\ run.fresh => run.acc = Expected

\* level1() has returned the expected string on a thread with no prior probes.
C7_Witness ==
    /\ run.pc = "done"
    /\ run.fresh
    /\ run.acc = Expected

\* The sink each wrapper forwards to.
Wrappers == {"iprintln"} \cup Levels
SinkOf(kind) == IF kind = "iprintln" THEN "stdout" ELSE kind

\* C9 (emission wrappers): every step of a wrapper makes exactly one probe,
\* formats its text with the depth that probe returned, and appends exactly one
\* message, that string (println! adds the line feed), to the end of what the
\* sinks have received; no other step touches the sinks.
C9_OneForwardPerCall ==
    [][ /\ last'.kind \in Wrappers =>
             /\ last'.probes = 1
             /\ last'.depth = Len(STACK'[last'.t]) - 1
             /\ last'.out = IndentedText(last'.text, last'.depth)
             /\ Len(sink') = Len(sink) + 1
             /\ SubSeq(sink', 1, Len(sink)) = sink
             /\ Top(sink') =
                  [to |-> SinkOf(last'.kind),
                   msg |-> IF last'.kind = "iprintln"
                           THEN last'.out \o <<LF>> ELSE last'.out]
        /\ last'.kind \notin Wrappers => sink' = sink ]_vars

\* A print at the outermost call and then a two-line warning from a nested
\* call have reached the sinks, in that order.
C9_Witness ==
    /\ Len(sink) = 2
    /\ sink[1] = [to |-> "stdout", msg |-> <<"a", LF>>]
    /\ sink[2] = [to |-> "warn",
                  msg |-> Pad(IndentWidth) \o <<"a", LF>> \o Pad(IndentWidth) \o <<"a">>]
    /\ last.kind = "warn"

\* The entries of stack that are not below p, in order.
NotBelow(stack, p) ==
    LET Keep(x) == x >= p
    IN SelectSeq(stack, Keep)

\* How many entries of stack satisfy being below (or above) p.
CountBelow(stack, p) == Cardinality({i \in 1..Len(stack) : stack[i] < p})
CountAbove(stack, p) == Cardinality({i \in 1..Len(stack) : stack[i] > p})

\* C11 (pruning effect of one probe): a probe with pointer p by thread t pops
\* exactly the recorded entries below p, leaves the entries not below p as they
\* were and in their order, adds nothing but p, and leaves p as the last entry.
C11_PruningEffect ==
    [][ last'.probes > 0 =>
            LET t == last'.t
                p == last'.sp
                kept == NotBelow(STACK[t], p)
            IN /\ last'.popped = CountBelow(STACK[t], p)
               /\ SubSeq(STACK'[t], 1, Len(kept)) = kept
               /\ STACK'[t] \in {kept, Append(kept, p)}
               /\ Top(STACK'[t]) = p ]_vars

\* A probe popped two entries and found its own pointer recorded under them:
\* nothing was pushed, and an entry above it stayed too.
C11_Witness ==
    /\ Probing
    /\ last.popped >= 2
    /\ ~last.pushed
    /\ Len(STACK[last.t]) >= 2

\* C12 (repeated probe at the same pointer): when a thread probes with the
\* pointer of its previous probe, it is returned the depth that probe returned
\* and its depth stack is left as it was.
C12_RepeatedProbe ==
    [][ \A t \in Threads :
            ( /\ last'.probes > 0 /\ last'.t = t
              /\ Top(frames[t]).cur # NoDepth
              /\ Top(frames[t]).sp = last'.sp )
            => /\ last'.depth = Top(frames[t]).cur
               /\ STACK'[t] = STACK[t] ]_vars

\* The second of two probes in a row with one pointer, at depth 2: it popped
\* nothing and pushed nothing.
C12_Witness ==
    /\ Probing
    /\ last.popped = 0
    /\ ~last.pushed
    /\ last.depth = 2
    /\ Top(frames[last.t]).sp = last.sp

\* C13 (reference result): a probe with pointer p returns the number of
\* entries recorded before it that are above p; when no recorded entry is
\* above or equal to p (the first probe of a thread included) the stack becomes
\* exactly <<p>> and the probe returns 0.
C13_CountsEntriesAbove ==
    [][ last'.probes > 0 =>
            LET t == last'.t
                p == last'.sp
            IN /\ last'.depth = CountAbove(STACK[t], p)
               /\ (\A i \in 1..Len(STACK[t]) : STACK[t][i] < p)
                      => (STACK'[t] = <<p>> /\ last'.depth = 0) ]_vars

\* A probe above three recorded entries has reset the stack to its pointer.
C13_Witness ==
    /\ Probing
    /\ last.popped = 3
    /\ last.pushed
    /\ STACK[last.t] = <<last.sp>>
    /\ last.depth = 0

\* C14 (probe before the arguments): the string iformat! yields is indented
\* by the depth bound before its arguments ran, whatever traced calls they
\* made, and that is the depth a plain probe at the same call site returns.
C14_ProbeBeforeArguments ==
    last.kind = "iformat" =>
        LET t == last.t
            plain == CallDepth(STACK[Slot(t)], stack_ptr(t)).depth
        IN /\ last.depth = last.prev
           /\ last.out = IndentedText(last.text, plain)

\* iformat! in a nested call has finished after a traced call made by its
\* arguments probed two frames deeper and returned: the stack still holds the
\* deeper entries.
C14_Witness ==
    /\ last.kind = "iformat"
    /\ last.again
    /\ last.depth = 1
    /\ Len(STACK[last.t]) >= 3
    /\ Len(last.out) > IndentWidth

====
